---- MODULE Spec2Model ----
(***************************************************************************)
(* A model of scripts/build-site.jsx: the documentation site build.  The   *)
(* build lists pages/, reads and parses every .mdx file, expands the       *)
(* bracket-named template page into one page per icon of icons.json,       *)
(* compiles, renders and writes every page, and logs "Build finished.".    *)
(*                                                                         *)
(* Strings the code computes with (file names, icon names) are sequences   *)
(* of characters, so that extname, basename, startsWith and the ".html"    *)
(* suffix are computed as the code computes them.                          *)
(***************************************************************************)
EXTENDS Integers, Sequences, FiniteSets, Bags, TLC

VARIABLES
    dir,        \* what fs.readdir(inputFolder) yields (the environment's input)
    iconKeys,   \* Object.keys(icons): the catalog's names, in declared order
    listing,    \* "pending" | "ok" | "failed": the fs.readdir promise
    files,      \* the .mdx files kept by the filter of line 154, in order
    reads,      \* per file: "pending" | "ok" | "failed"
    loaded,     \* per file: the page readMarkdownFile resolved with
    expansion,  \* "notrun" | "done" | "threw": the callback of lines 161-176
    pages,      \* the page list the expansion callback returned
    tasks,      \* per page of pages: the state of its buildPromises entry
    www,        \* the output folder: file name -> content last written to it
    writes,     \* bag of the file names fs.writeFile completed on
    log,        \* bag of the console notices
    build,      \* "running" | "done" | "rejected": the chain of lines 153-207
    error       \* the reason the chain rejected with ("none" while it has not)

vars == <<dir, iconKeys, listing, files, reads, loaded, expansion, pages,
          tasks, www, writes, log, build, error>>

----------------------------------------------------------------------------
(* Bounds of the model. *)

\* the longest directory listing
MaxFiles == 3
\* the largest catalog
MaxIcons == 2

----------------------------------------------------------------------------
(* Strings and node:path. *)

Max(S) == CHOOSE m \in S : \A n \in S : n <= m

Range(s) == {s[i] : i \in DOMAIN s}

mdx == <<".", "m", "d", "x">>

html == <<".", "h", "t", "m", "l">>

\* path.extname: from the last dot on, "" when there is none or it leads the name
extname(file) ==
    LET dots == {i \in 1..Len(file) : file[i] = "."}
    IN  IF dots = {} \/ Max(dots \cup {0}) = 1
        THEN <<>>
        ELSE SubSeq(file, Max(dots), Len(file))

endsWith(s, suffix) ==
    /\ Len(s) >= Len(suffix)
    /\ SubSeq(s, Len(s) - Len(suffix) + 1, Len(s)) = suffix

\* basename without its second argument: the extension stays
basenameKeepExt(file, ext) == file

\* path.basename(file, ext) of a name without directories: ext is cut off the
\* end, unless it is the whole name
basename(file, ext) ==
    IF Len(file) > Len(ext) /\ endsWith(file, ext)
    THEN SubSeq(file, 1, Len(file) - Len(ext))
    ELSE file

startsWith(s, c) == Len(s) > 0 /\ s[1] = c

----------------------------------------------------------------------------
(* The environment: the pages/ folder and icons.json. *)

Str(s) == [str |-> s]

\* the names a listing of pages/ may hold; n.txt is no content file
DirNames ==
    { <<"a">> \o mdx, <<"b">> \o mdx, <<"[", "s", "]">> \o mdx,
      <<"[", "t", "]">> \o mdx, <<"n", ".", "t", "x", "t">> }

\* the names icons.json may hold
IconNames == { <<"a">>, <<"b">>, <<"[", "s", "]">> }

\* icons.json: name -> record
icons == [k \in IconNames |-> [path |-> <<"M">> \o k]]

NoData == [k \in {} |-> Str(<<>>)]

\* what gray-matter yields for each file: {data, content}.  A body is
\* [kind, icon]: "text" is plain markup, "Icon" holds <Icon icon="..."/>,
\* "pageIcon" holds {page.icon.path}, "bad" is markup mdx cannot compile.
matter(file) ==
    CASE file = <<"a">> \o mdx ->
            [data |-> [title |-> Str(<<"A">>)],
             content |-> [kind |-> "Icon", icon |-> <<"a">>]]
      [] file = <<"b">> \o mdx ->
            [data |-> [layout |-> Str(<<"w">>)],
             content |-> [kind |-> "text", icon |-> <<>>]]
      [] file = <<"[", "s", "]">> \o mdx ->
            [data |-> [title |-> Str(<<"T">>), layout |-> Str(<<"i">>)],
             content |-> [kind |-> "pageIcon", icon |-> <<>>]]
      [] file = <<"[", "t", "]">> \o mdx ->
            [data |-> [icon |-> Str(<<"o">>), draft |-> Str(<<"y">>)],
             content |-> [kind |-> "bad", icon |-> <<>>]]
      [] OTHER ->
            [data |-> NoData, content |-> [kind |-> "text", icon |-> <<>>]]

\* the sequences without repetition, of at most n elements of S
RECURSIVE Listings(_, _)
Listings(S, n) ==
    IF n = 0
    THEN {<<>>}
    ELSE LET shorter == Listings(S, n - 1)
         IN  shorter \cup
             UNION {{Append(s, x) : x \in S \ Range(s)} : s \in shorter}

----------------------------------------------------------------------------
(* Pages: readMarkdownFile and the template expansion. *)

\* the slot of a file whose read has not resolved
NoPage ==
    [data |-> NoData, content |-> [kind |-> "none", icon |-> <<>>],
     fileName |-> <<>>]

readMarkdownFile(file) ==
    [data |-> matter(file).data,
     content |-> matter(file).content,
     fileName |-> basename(file, mdx) \o html]

isTemplate(page) == startsWith(page.fileName, "[")

\* findLast in place of find
lastTemplateIndex(ps) ==
    LET found == {i \in 1..Len(ps) : isTemplate(ps[i])}
    IN  IF found = {} THEN 0 ELSE CHOOSE i \in found : \A j \in found : i >= j

\* pages.find(...): the index of the first template page, 0 when find
\* yields undefined
templateIndex(ps) ==
    LET found == {i \in 1..Len(ps) : isTemplate(ps[i])}
    IN  IF found = {} THEN 0 ELSE CHOOSE i \in found : \A j \in found : i <= j

templatePage(ps) == ps[templateIndex(ps)]

\* {...b, ...a}: the keys of a win
spreadUnder(a, b) ==
    [k \in DOMAIN a \cup DOMAIN b |-> IF k \in DOMAIN a THEN a[k] ELSE b[k]]

\* {...a, ...b}: the keys of b win
spread(a, b) ==
    [k \in DOMAIN a \cup DOMAIN b |-> IF k \in DOMAIN b THEN b[k] ELSE a[k]]

\* the object literal with fileName taken from the template
iconPageTemplateName(template, icon) ==
    [data |-> [k \in DOMAIN template.data \cup {"title", "icon"} |->
                  IF k = "title" THEN Str(icon)
                  ELSE IF k = "icon" THEN icons[icon] ELSE template.data[k]],
     content |-> template.content,
     fileName |-> template.fileName]

\* the object literal with the icon filled into the body
iconPageFilledBody(template, icon) ==
    [data |-> [k \in DOMAIN template.data \cup {"title", "icon"} |->
                  IF k = "title" THEN Str(icon)
                  ELSE IF k = "icon" THEN icons[icon] ELSE template.data[k]],
     content |-> [kind |-> template.content.kind, icon |-> icon],
     fileName |-> icon \o html]

\* the object literal of lines 163-171
iconPage(template, icon) ==
    [data |-> spread(template.data, [title |-> Str(icon), icon |-> icons[icon]]),
     content |-> template.content,
     fileName |-> icon \o html]

iconsPages(ps, keys) ==
    [i \in 1..Len(keys) |-> iconPage(templatePage(ps), keys[i])]

\* the filter left out
unfilteredPages(ps) == ps

\* pages.filter(page => !page.fileName.startsWith("["))
ordinaryPages(ps) == SelectSeq(ps, LAMBDA page : ~isTemplate(page))

\* templatePage.data of undefined: the map callback runs once per icon
expansionThrows(ps, keys) == templateIndex(ps) = 0 /\ Len(keys) > 0

\* the list of lines 172-175
expand(ps, keys) ==
    IF Len(keys) = 0
    THEN ordinaryPages(ps)
    ELSE ordinaryPages(ps) \o iconsPages(ps, keys)

----------------------------------------------------------------------------
(* Compiling and rendering one page. *)

\* mdx.evaluate rejects
compileFails(page) == page.content.kind = "bad"

\* renderToStaticMarkup throws: icons[props.icon] or page.data.icon is
\* undefined and .path is read of it
renderThrows(page, keys) ==
    \/ page.content.kind = "Icon" /\ page.content.icon \notin Range(keys)
    \/ page.content.kind = "pageIcon" /\ "icon" \notin DOMAIN page.data

\* the <title> prefix of PageWrapper
documentTitle(page) ==
    IF "title" \in DOMAIN page.data /\ page.data.title # Str(<<>>)
    THEN page.data.title.str \o <<" ", "-", " ">>
    ELSE <<>>

\* renderToStaticMarkup(PageWrapper{page, element}): the markup text
renderToStaticMarkup(page) ==
    [title |-> documentTitle(page), main |-> page.content, props |-> page.data]

----------------------------------------------------------------------------
(* Promises, the console and the output folder. *)

Notice(msg, file, n) == [msg |-> msg, file |-> file, n |-> n]

Processing(n) == Notice("Processing files.", <<>>, n)

Saved(fileName) == Notice("Saved file to", fileName, 0)

Finished == Notice("Build finished.", <<>>, 0)

logged(lg, notice) == lg (+) SetToBag({notice})

\* Promise.any in place of Promise.all
anyResolved(rs) == \E i \in DOMAIN rs : rs[i] = "ok"

\* Promise.all(reads) resolves: every read resolved
allResolved(rs) == \A i \in DOMAIN rs : rs[i] = "ok"

\* Promise.allSettled in place of Promise.all
allSettled(ts) == \A i \in DOMAIN ts : ts[i] \notin {"compiling", "writing"}

\* Promise.all(buildPromises) resolves: every page task resolved
allSaved(ts) == \A i \in DOMAIN ts : ts[i] = "saved"

\* fs.writeFile with flag "wx": an existing file is kept
writeFileExclusive(folder, fileName, content) ==
    [f \in DOMAIN folder \cup {fileName} |->
        IF f \in DOMAIN folder THEN folder[f] ELSE content]

\* fs.writeFile: the file holds what was written last
writeFile(folder, fileName, content) ==
    [f \in DOMAIN folder \cup {fileName} |->
        IF f = fileName THEN content ELSE folder[f]]

\* a rejection reaches the end of the chain: no handler takes it, and a
\* promise settles once
Reject(reason) ==
    /\ build' = IF build = "running" THEN "rejected" ELSE build
    /\ error' = IF build = "running" THEN reason ELSE error

----------------------------------------------------------------------------
(* The build. *)

Init ==
    /\ dir \in Listings(DirNames, MaxFiles)
    /\ iconKeys \in Listings(IconNames, MaxIcons)
    /\ listing = "pending"
    /\ files = <<>>
    /\ reads = <<>>
    /\ loaded = <<>>
    /\ expansion = "notrun"
    /\ pages = <<>>
    /\ tasks = <<>>
    /\ www = [f \in {} |-> <<>>]
    /\ writes = EmptyBag
    /\ log = EmptyBag
    /\ build = "running"
    /\ error = "none"

\* lines 161-207 up to the first suspension, run once Promise.all(reads)
\* resolves with ps; lg is the console so far
Expansion(ps, lg) ==
    IF expansionThrows(ps, iconKeys)
    THEN /\ expansion' = "threw"
         /\ pages' = <<>>
         /\ tasks' = <<>>
         /\ log' = lg
         /\ Reject("TypeError")
    ELSE /\ expansion' = "done"
         /\ pages' = expand(ps, iconKeys)
         /\ tasks' = [i \in 1..Len(expand(ps, iconKeys)) |-> "compiling"]
         /\ IF Len(expand(ps, iconKeys)) = 0
            THEN /\ build' = "done"
                 /\ log' = logged(lg, Finished)
                 /\ error' = error
            ELSE /\ log' = lg
                 /\ UNCHANGED <<build, error>>

\* fs.readdir resolves: lines 153-160
ReadDir ==
    /\ listing = "pending"
    /\ listing' = "ok"
    /\ files' = SelectSeq(dir, LAMBDA file : extname(file) = mdx)
    /\ reads' = [i \in 1..Len(files') |-> "pending"]
    /\ loaded' = [i \in 1..Len(files') |-> NoPage]
    /\ IF Len(files') = 0
       THEN Expansion(<<>>, logged(log, Processing(0)))
       ELSE /\ log' = logged(log, Processing(Len(files')))
            /\ UNCHANGED <<expansion, pages, tasks, build, error>>
    /\ UNCHANGED <<dir, iconKeys, www, writes>>

\* fs.readdir rejects
ReadDirFail ==
    /\ listing = "pending"
    /\ listing' = "failed"
    /\ Reject("IOError")
    /\ UNCHANGED <<dir, iconKeys, files, reads, loaded, expansion, pages,
                   tasks, www, writes, log>>

\* fs.readFile of files[i] resolves and gray-matter parses it
ReadFile(i) ==
    /\ listing = "ok"
    /\ i \in DOMAIN reads /\ reads[i] = "pending"
    /\ reads' = [reads EXCEPT ![i] = "ok"]
    /\ loaded' = [loaded EXCEPT ![i] = readMarkdownFile(files[i])]
    /\ IF allResolved(reads')
       THEN Expansion(loaded', log)
       ELSE UNCHANGED <<expansion, pages, tasks, log, build, error>>
    /\ UNCHANGED <<dir, iconKeys, listing, files, www, writes>>

\* fs.readFile rejects (IOError) or gray-matter throws (ParseError)
ReadFileFail(i, reason) ==
    /\ listing = "ok"
    /\ i \in DOMAIN reads /\ reads[i] = "pending"
    /\ reads' = [reads EXCEPT ![i] = "failed"]
    /\ Reject(reason)
    /\ UNCHANGED <<dir, iconKeys, listing, files, loaded, expansion, pages,
                   tasks, www, writes, log>>

\* a rejection that also drops the tasks still in flight
CompileFailCancels(t) ==
    /\ t \in DOMAIN tasks /\ tasks[t] = "compiling"
    /\ compileFails(pages[t])
    /\ tasks' = [u \in DOMAIN tasks |->
                    IF u = t THEN "CompileError"
                    ELSE IF tasks[u] \in {"compiling", "writing"} THEN "cancelled"
                    ELSE tasks[u]]
    /\ Reject("CompileError")
    /\ UNCHANGED <<dir, iconKeys, listing, files, reads, loaded, expansion,
                   pages, www, writes, log>>

\* mdx.evaluate of page t rejects
CompileFail(t) ==
    /\ t \in DOMAIN tasks /\ tasks[t] = "compiling"
    /\ compileFails(pages[t])
    /\ tasks' = [tasks EXCEPT ![t] = "CompileError"]
    /\ Reject("CompileError")
    /\ UNCHANGED <<dir, iconKeys, listing, files, reads, loaded, expansion,
                   pages, www, writes, log>>

\* mdx.evaluate resolves and renderToStaticMarkup throws
RenderFail(t) ==
    /\ t \in DOMAIN tasks /\ tasks[t] = "compiling"
    /\ ~compileFails(pages[t])
    /\ renderThrows(pages[t], iconKeys)
    /\ tasks' = [tasks EXCEPT ![t] = "LookupError"]
    /\ Reject("LookupError")
    /\ UNCHANGED <<dir, iconKeys, listing, files, reads, loaded, expansion,
                   pages, www, writes, log>>

\* mdx.evaluate resolves, the page renders and fs.writeFile is called
Render(t) ==
    /\ t \in DOMAIN tasks /\ tasks[t] = "compiling"
    /\ ~compileFails(pages[t])
    /\ ~renderThrows(pages[t], iconKeys)
    /\ tasks' = [tasks EXCEPT ![t] = "writing"]
    /\ UNCHANGED <<dir, iconKeys, listing, files, reads, loaded, expansion,
                   pages, www, writes, log, build, error>>

\* fs.writeFile of page t resolves: lines 198-207
Write(t) ==
    /\ t \in DOMAIN tasks /\ tasks[t] = "writing"
    /\ www' = writeFile(www, pages[t].fileName, renderToStaticMarkup(pages[t]))
    /\ writes' = writes (+) SetToBag({pages[t].fileName})
    /\ tasks' = [tasks EXCEPT ![t] = "saved"]
    /\ IF allSaved(tasks')
       THEN /\ log' = logged(logged(log, Saved(pages[t].fileName)), Finished)
            /\ build' = "done"
       ELSE /\ log' = logged(log, Saved(pages[t].fileName))
            /\ build' = build
    /\ UNCHANGED <<dir, iconKeys, listing, files, reads, loaded, expansion,
                   pages, error>>

\* fs.writeFile of page t rejects
WriteFail(t) ==
    /\ t \in DOMAIN tasks /\ tasks[t] = "writing"
    /\ tasks' = [tasks EXCEPT ![t] = "IOError"]
    /\ Reject("IOError")
    /\ UNCHANGED <<dir, iconKeys, listing, files, reads, loaded, expansion,
                   pages, www, writes, log>>

Next ==
    \/ ReadDir
    \/ ReadDirFail
    \/ \E i \in 1..MaxFiles : ReadFile(i)
    \/ \E i \in 1..MaxFiles, reason \in {"IOError", "ParseError"} :
          ReadFileFail(i, reason)
    \/ \E t \in 1..(MaxFiles + MaxIcons) : CompileFail(t)
    \/ \E t \in 1..(MaxFiles + MaxIcons) : RenderFail(t)
    \/ \E t \in 1..(MaxFiles + MaxIcons) : Render(t)
    \/ \E t \in 1..(MaxFiles + MaxIcons) : Write(t)
    \/ \E t \in 1..(MaxFiles + MaxIcons) : WriteFail(t)

Spec == Init /\ [][Next]_vars

----------------------------------------------------------------------------
(* What the properties below speak of. *)

\* the content files that are, and are not, named as a template
TemplateFiles == {i \in DOMAIN files : startsWith(files[i], "[")}

OrdinaryFiles == DOMAIN files \ TemplateFiles

\* the number of ordinary pages, and of catalog entries
M == Cardinality(OrdinaryFiles)

N == Len(iconKeys)

\* the derived pages are the last N pages of the final list
DerivedAt(j) == pages[Len(pages) - N + j]

\* the name of file i with its .mdx cut off
Stem(i) == SubSeq(files[i], 1, Len(files[i]) - Len(mdx))

\* the first template file of the listing
FirstTemplate == CHOOSE i \in TemplateFiles : \A j \in TemplateFiles : i <= j

Failures == {"CompileError", "LookupError", "IOError"}

SomethingFailed ==
    \/ listing = "failed"
    \/ \E i \in DOMAIN reads : reads[i] = "failed"
    \/ expansion = "threw"
    \/ \E t \in DOMAIN tasks : tasks[t] \in Failures

\* the tasks of pages that share the output name of page t
SameName(t) == {u \in DOMAIN pages : pages[u].fileName = pages[t].fileName}

----------------------------------------------------------------------------
(* C1: the size of the expanded page list. *)

\* C1 as stated: with exactly one template page, M ordinary pages and N
\* catalog entries, the expansion returns M - 1 + N pages.
C1_Original ==
    (expansion = "done" /\ Cardinality(TemplateFiles) = 1)
        => Len(pages) = M - 1 + N

\* C1, amended: with exactly one template page, M ordinary pages and N
\* catalog entries, the expansion returns M + N pages.
C1_Count ==
    (expansion = "done" /\ Cardinality(TemplateFiles) = 1)
        => Len(pages) = M + N

C1_Witness ==
    /\ expansion = "done" /\ Cardinality(TemplateFiles) = 1
    /\ M = 2 /\ N = 2 /\ Len(pages) = 4

----------------------------------------------------------------------------
(* C2: output names of the final page list. *)

\* C2 as stated: the fileName values of the final page list are pairwise
\* distinct.
C2_Original ==
    expansion = "done" =>
        \A i, j \in DOMAIN pages :
            i # j => pages[i].fileName # pages[j].fileName

\* C2, amended: two pages of the final list share a fileName exactly when
\* one is an ordinary page, the other a derived page, and the ordinary
\* file's base name is the derived page's catalog key; ordinary pages are
\* pairwise distinct in fileName, and so are derived pages.
C2_DistinctButCollisions ==
    expansion = "done" =>
        \A i, j \in DOMAIN pages :
            i < j =>
                ( pages[i].fileName = pages[j].fileName
                  <=> /\ i <= Len(pages) - N
                      /\ j > Len(pages) - N
                      /\ \E f \in OrdinaryFiles :
                            /\ Cardinality({g \in OrdinaryFiles : g <= f}) = i
                            /\ Stem(f) = iconKeys[j - (Len(pages) - N)] )

C2_Witness ==
    /\ expansion = "done"
    /\ \E i, j \in DOMAIN pages : i < j /\ pages[i].fileName = pages[j].fileName
    /\ \E i, j \in DOMAIN pages :
          i < j /\ j <= Len(pages) - N /\ pages[i].fileName # pages[j].fileName

----------------------------------------------------------------------------
(* C3: the metadata of a derived page. *)

\* C3: every derived page built from catalog entry e has title = e's name
\* and icon = e's record, and holds every other key of the template's
\* metadata with the template's value, also when the template defines title
\* or icon itself.
C3_MetadataOverride ==
    (expansion = "done" /\ N > 0) =>
        \A j \in 1..N :
            LET derived == DerivedAt(j)
                template == loaded[FirstTemplate]
            IN  /\ derived.data.title = Str(iconKeys[j])
                /\ derived.data.icon = icons[iconKeys[j]]
                /\ \A k \in DOMAIN template.data \ {"title", "icon"} :
                      /\ k \in DOMAIN derived.data
                      /\ derived.data[k] = template.data[k]
                /\ DOMAIN derived.data = DOMAIN template.data \cup {"title", "icon"}

C3_Witness ==
    /\ expansion = "done" /\ N = 2
    /\ "title" \in DOMAIN loaded[FirstTemplate].data
    /\ "layout" \in DOMAIN DerivedAt(2).data
    /\ DerivedAt(2).data.title # loaded[FirstTemplate].data.title

----------------------------------------------------------------------------
(* C4: bodies, and what the expansion leaves alone. *)

\* C4: every derived page's content is the template page's content, and the
\* expansion changes neither the loaded pages (the template among them) nor
\* the ordinary pages it passes on.
C4_BodyIdentity ==
    expansion = "done" =>
        /\ \A i \in DOMAIN loaded : loaded[i] = readMarkdownFile(files[i])
        /\ \A j \in 1..N : DerivedAt(j).content = matter(files[FirstTemplate]).content
        /\ \A f \in OrdinaryFiles :
              pages[Cardinality({g \in OrdinaryFiles : g <= f})] = loaded[f]

C4_Witness ==
    /\ expansion = "done" /\ N = 2 /\ M >= 1
    /\ DerivedAt(1).content = DerivedAt(2).content
    /\ DerivedAt(1).content # pages[1].content

----------------------------------------------------------------------------
(* C5: the files a successful build wrote. *)

\* the names the claim lists
ExpectedNames ==
    {Stem(f) \o html : f \in OrdinaryFiles} \cup {iconKeys[j] \o html : j \in 1..N}

\* C5 as stated: when the build is done the names written are exactly the
\* ordinary files' names with .html for .mdx and the catalog keys with
\* .html, each written once, and no bracket-prefixed file is written in any
\* run.
C5_Original ==
    /\ build = "done" =>
          /\ DOMAIN www = ExpectedNames
          /\ \A name \in ExpectedNames : CopiesIn(name, writes) = 1
    /\ \A name \in DOMAIN www :
          /\ ~startsWith(name, "[")
          /\ \A f \in TemplateFiles : name # Stem(f) \o html

\* C5, amended: when the build is done the set of names written is exactly
\* that set; a name is written once, and twice when it is both an ordinary
\* page's and a derived page's name; a bracket-prefixed file, one named
\* after the template page included, is written only as the derived page of
\* a catalog key that itself starts with a bracket.
C5_WrittenFiles ==
    /\ build = "done" =>
          /\ DOMAIN www = ExpectedNames
          /\ BagToSet(writes) = ExpectedNames
          /\ \A name \in ExpectedNames :
                CopiesIn(name, writes) =
                    IF /\ \E f \in OrdinaryFiles : Stem(f) \o html = name
                       /\ \E j \in 1..N : iconKeys[j] \o html = name
                    THEN 2 ELSE 1
    /\ \A name \in DOMAIN www :
          (startsWith(name, "[") \/ \E f \in TemplateFiles : name = Stem(f) \o html)
              => \E t \in DOMAIN pages :
                    /\ t > Len(pages) - N
                    /\ tasks[t] = "saved"
                    /\ startsWith(iconKeys[t - (Len(pages) - N)], "[")
                    /\ name = iconKeys[t - (Len(pages) - N)] \o html

C5_Witness ==
    /\ build = "done" /\ M = 2 /\ N = 2 /\ TemplateFiles # {}
    /\ Cardinality(DOMAIN www) = 3
    /\ \E name \in DOMAIN www : CopiesIn(name, writes) = 2

----------------------------------------------------------------------------
(* C6: the order of the stages. *)

\* C6: the expansion runs only once every content file is read and parsed,
\* no page is compiled or written before the expansion has finished, and
\* "Build finished." is logged only once every page of the final list is
\* written and its "Saved" notice logged.
C6_Barrier ==
    /\ expansion # "notrun" =>
          /\ listing = "ok"
          /\ \A i \in DOMAIN files :
                reads[i] = "ok" /\ loaded[i] = readMarkdownFile(files[i])
    /\ (tasks # <<>> \/ DOMAIN www # {} \/ writes # EmptyBag) => expansion = "done"
    /\ \A t \in DOMAIN tasks : tasks[t] # "compiling" => expansion = "done"
    /\ BagIn(Finished, log) =>
          /\ expansion = "done"
          /\ Len(pages) = M + N
          /\ \A t \in DOMAIN pages :
                /\ tasks[t] = "saved"
                /\ pages[t].fileName \in DOMAIN www
                /\ CopiesIn(Saved(pages[t].fileName), log) = Cardinality(SameName(t))

C6_Witness ==
    /\ BagIn(Finished, log)
    /\ Len(files) = 3 /\ Len(pages) = 4

----------------------------------------------------------------------------
(* C7: failures. *)

\* C7: once any stage has failed (directory or file read, metadata parse,
\* expansion, compile, render, write) the chain is rejected and stays so, the
\* failed step is never run again, and "Build finished." is never logged;
\* the build is done only when every page task resolved.
C7_FailurePropagation ==
    /\ [](/\ SomethingFailed => build = "rejected" /\ ~BagIn(Finished, log)
          /\ build = "rejected" <=> error # "none"
          /\ build = "rejected" => SomethingFailed
          /\ build = "done" <=> BagIn(Finished, log)
          /\ build = "done" => \A t \in DOMAIN tasks : tasks[t] = "saved")
    /\ [][/\ build = "rejected" => build' = "rejected" /\ error' = error
          /\ listing = "failed" => listing' = "failed"
          /\ \A i \in DOMAIN reads :
                reads[i] = "failed" => i \in DOMAIN reads' /\ reads'[i] = "failed"
          /\ expansion = "threw" => expansion' = "threw"
          /\ \A t \in DOMAIN tasks :
                tasks[t] \in Failures => t \in DOMAIN tasks' /\ tasks'[t] = tasks[t]
         ]_vars

C7_Witness ==
    /\ build = "rejected" /\ error = "LookupError"
    /\ \E t \in DOMAIN tasks : tasks[t] = "LookupError"
    /\ \E t \in DOMAIN tasks : tasks[t] = "saved"
    /\ \A t \in DOMAIN tasks : tasks[t] \notin {"compiling", "writing"}

----------------------------------------------------------------------------
(* C8: a page whose body does not compile. *)

\* C8 as stated: a CompileError aborts only that page's build, not the
\* whole run.
C8_Original ==
    (\E t \in DOMAIN tasks : tasks[t] = "CompileError") => build # "rejected"

\* C8, amended: when compiling one page's body fails nothing is written for
\* that page and the whole build is rejected, "Build finished." never being
\* logged; the failure itself cancels no other page task and changes no
\* output, so the other page tasks go on to compile, render and write.
C8_CompileFailure ==
    /\ [](\A t \in DOMAIN tasks :
            tasks[t] = "CompileError" =>
                /\ build = "rejected" /\ ~BagIn(Finished, log)
                /\ CopiesIn(pages[t].fileName, writes) =
                      Cardinality({u \in SameName(t) : tasks[u] = "saved"})
                /\ \A u \in DOMAIN tasks :
                      /\ tasks[u] \in {"compiling", "writing", "saved"} \cup Failures
                      /\ tasks[u] = "writing" => ENABLED Write(u))
    /\ [][\A t \in DOMAIN tasks :
            (tasks[t] = "compiling" /\ tasks'[t] = "CompileError") =>
                /\ \A u \in DOMAIN tasks \ {t} : tasks'[u] = tasks[u]
                /\ www' = www /\ writes' = writes /\ log' = log
         ]_vars

C8_Witness ==
    /\ \E t \in DOMAIN tasks :
          /\ tasks[t] = "CompileError"
          /\ pages[t].fileName \notin DOMAIN www
    /\ \E u \in DOMAIN tasks : tasks[u] = "saved"
    /\ error = "CompileError"
    /\ \A u \in DOMAIN tasks : tasks[u] \in {"saved", "CompileError"}

----------------------------------------------------------------------------
(* C9: two pages with one output name. *)

\* an ordinary page t and a derived page u with the same fileName
Collide(t, u) ==
    /\ t \in 1..(Len(pages) - N) /\ u \in (Len(pages) - N + 1)..Len(pages)
    /\ pages[t].fileName = pages[u].fileName

\* C9: when an ordinary page and a derived page have the same fileName and
\* the build is done, both tasks have written that path and logged "Saved",
\* no error is reported, and the file holds the content of whichever write
\* completed last: each completed write replaces the file's content.
C9_CollisionRace ==
    /\ [](build = "done" =>
            \A t, u \in DOMAIN pages :
                Collide(t, u) =>
                    /\ tasks[t] = "saved" /\ tasks[u] = "saved"
                    /\ CopiesIn(pages[t].fileName, writes) = 2
                    /\ CopiesIn(Saved(pages[t].fileName), log) = 2
                    /\ error = "none"
                    /\ www[pages[t].fileName] \in
                          {renderToStaticMarkup(pages[t]), renderToStaticMarkup(pages[u])})
    /\ [][\A t \in DOMAIN tasks :
            (tasks[t] = "writing" /\ tasks'[t] = "saved") =>
                /\ pages[t].fileName \in DOMAIN www'
                /\ www'[pages[t].fileName] = renderToStaticMarkup(pages[t])
         ]_vars

\* both outcomes in one run: one shared file holds the ordinary page, the
\* other the derived page
C9_Witness ==
    /\ build = "done"
    /\ \E t, u \in DOMAIN pages :
          /\ Collide(t, u)
          /\ renderToStaticMarkup(pages[t]) # renderToStaticMarkup(pages[u])
          /\ www[pages[t].fileName] = renderToStaticMarkup(pages[t])
    /\ \E t, u \in DOMAIN pages :
          /\ Collide(t, u)
          /\ renderToStaticMarkup(pages[t]) # renderToStaticMarkup(pages[u])
          /\ www[pages[t].fileName] = renderToStaticMarkup(pages[u])

----------------------------------------------------------------------------
(* C10: no template page, or several. *)

\* C10 as stated: without a bracket-named page the expansion fails before
\* any page task starts, nothing is written and the build is never done;
\* with several, the first of the listing supplies metadata and body of all
\* derived pages and every bracket-named loaded page is left out.
C10_Original ==
    /\ (expansion # "notrun" /\ TemplateFiles = {}) =>
          /\ expansion = "threw"
          /\ tasks = <<>> /\ DOMAIN www = {} /\ build # "done"
    /\ (expansion = "done" /\ Cardinality(TemplateFiles) > 1) =>
          /\ \A j \in 1..N :
                /\ DerivedAt(j).content = matter(files[FirstTemplate]).content
                /\ \A k \in DOMAIN matter(files[FirstTemplate]).data \ {"title", "icon"} :
                      DerivedAt(j).data[k] = matter(files[FirstTemplate]).data[k]
          /\ \A t \in 1..(Len(pages) - N) : ~startsWith(pages[t].fileName, "[")

\* C10, amended: without a bracket-named page and with a catalog of at least
\* one entry, the expansion fails before any page task starts, nothing is
\* written and the build is never done; with an empty catalog it succeeds
\* and the loaded pages are the final list.  With several bracket-named
\* pages the first of the listing supplies metadata and body of all derived
\* pages and every bracket-named loaded page is left out.
C10_TemplateCount ==
    /\ (expansion # "notrun" /\ TemplateFiles = {} /\ N > 0) =>
          /\ expansion = "threw" /\ build = "rejected" /\ error = "TypeError"
          /\ tasks = <<>> /\ pages = <<>>
          /\ DOMAIN www = {} /\ writes = EmptyBag /\ ~BagIn(Finished, log)
    /\ (expansion # "notrun" /\ TemplateFiles = {} /\ N = 0) =>
          expansion = "done" /\ pages = loaded
    /\ (expansion = "done" /\ Cardinality(TemplateFiles) > 1) =>
          /\ Len(pages) = M + N
          /\ \A j \in 1..N :
                /\ DerivedAt(j).content = matter(files[FirstTemplate]).content
                /\ DOMAIN DerivedAt(j).data =
                      DOMAIN matter(files[FirstTemplate]).data \cup {"title", "icon"}
                /\ \A k \in DOMAIN matter(files[FirstTemplate]).data \ {"title", "icon"} :
                      DerivedAt(j).data[k] = matter(files[FirstTemplate]).data[k]
          /\ \A t \in 1..(Len(pages) - N) : ~startsWith(pages[t].fileName, "[")

C10_Witness ==
    /\ expansion = "done" /\ Cardinality(TemplateFiles) = 2 /\ N = 2 /\ M = 1
    /\ matter(files[FirstTemplate]).content.kind = "pageIcon"
    /\ \E t \in DOMAIN tasks : tasks[t] = "saved"

====
